---- MODULE Spec2Model ----
(***************************************************************************)
(* Hierarchical state machine dispatch of statig (awaitable flavour).      *)
(*                                                                         *)
(* A hierarchy is a tuple `hier`: level x (1..Len(hier)) has the           *)
(* superstate hier[x], or none when hier[x] = None.  A level is a kind     *)
(* (enum discriminant); the levels nobody names as superstate are the      *)
(* leaf states, the others are the superstates.  The machine is either     *)
(* the blinky example (its hierarchy and handlers) or a generic model M    *)
(* whose handlers may answer anything.                                     *)
(***************************************************************************)
EXTENDS Naturals, Integers, Sequences, FiniteSets, TLC

\* Largest number of levels (states and superstates) of a generic hierarchy.
MaxNodes == 5

VARIABLES
    hier,       \* the declared hierarchy: hier[x] is the superstate of x
    model,      \* "Blinky" (handlers of the example) or "Any" (generic M)
    phase,      \* "uninitialized" until init() has completed
    state,      \* the current leaf state of the state machine
    pc,         \* "idle", "init", "handler" or "transition"
    event,      \* the event of the dispatch in progress
    cursor,     \* the level whose handler is awaited
    target,     \* the target of the transition in progress
    todo,       \* the entry/exit action calls still awaited
    trace,      \* the calls of the operation in progress, in order
    active,     \* per level: entry actions run minus exit actions run
    fault,      \* a call was rejected as an error
    blocking    \* the same machine in the blocking (synchronous) mode, fed
                \* the same operations: its phase, its state, the calls of
                \* its last operation (forgotten when the next one starts)
                \* and whether it has run the operation the trace holds

vars == <<hier, model, phase, state, pc, event, cursor, target, todo, trace,
          active, fault, blocking>>

----------------------------------------------------------------------------
\* Option::None of `superstate()`.
None == 0

\* Superstate::superstate: the superstate of level x, or None.
superstate(h, x) == h[x]

Levels(h) == 1 .. Len(h)

\* The variants of M::State: the levels that are nobody's superstate.
States(h) == {x \in Levels(h) : \A y \in Levels(h) : h[y] # x}

\* The variants of M::Superstate.
Superstates(h) == Levels(h) \ States(h)

\* Tree-shaped (finite, acyclic) declarations of n levels, numbered so that a
\* superstate comes before its substates.
Forests(n) == {h \in [1 .. n -> 0 .. n - 1] : \A i \in 1 .. n : h[i] < i}

\* The blinky example: led_on and led_off under blinking, not_blinking alone.
blinking == 1
led_on == 2
led_off == 3
not_blinking == 4
BlinkyHier == <<None, blinking, blinking, None>>

Hierarchies == UNION {Forests(n) : n \in 1 .. MaxNodes} \cup {BlinkyHier}

----------------------------------------------------------------------------
\* Response<State>
Handled == [tag |-> "Handled", state |-> None]
Super == [tag |-> "Super", state |-> None]
Transition(s) == [tag |-> "Transition", state |-> s]

Events(m) == IF m = "Blinky" THEN {"TimerElapsed", "ButtonPressed"} ELSE {"Event"}

\* blinky with led_off answering ButtonPressed itself instead of deferring it.
BlinkyHandler_LedOffAnswers(x, e) ==
    CASE x = led_on ->
            IF e = "TimerElapsed" THEN Transition(led_off) ELSE Super
      [] x = led_off ->
            IF e = "TimerElapsed" THEN Transition(led_on)
            ELSE Transition(not_blinking)
      [] x = blinking ->
            IF e = "ButtonPressed" THEN Transition(not_blinking) ELSE Super
      [] x = not_blinking ->
            IF e = "ButtonPressed" THEN Transition(led_on) ELSE Super

\* The handlers of blinky.
BlinkyHandler(x, e) ==
    CASE x = led_on ->
            IF e = "TimerElapsed" THEN Transition(led_off) ELSE Super
      [] x = led_off ->
            IF e = "TimerElapsed" THEN Transition(led_on) ELSE Super
      [] x = blinking ->
            IF e = "ButtonPressed" THEN Transition(not_blinking) ELSE Super
      [] x = not_blinking ->
            IF e = "ButtonPressed" THEN Transition(led_on) ELSE Super

\* Superstate::call_handler: what the handler of level x may answer to e.
\* A generic handler may answer anything (it can read the shared storage).
call_handler(m, h, x, e) ==
    IF m = "Blinky"
    THEN {BlinkyHandler(x, e)}
    ELSE {Handled, Super} \cup {Transition(s) : s \in States(h)}

----------------------------------------------------------------------------
\* same_state comparing something that never matches.
same_state_Never(lhs, rhs) == FALSE

\* SuperstateExt::same_state: equal discriminants.
same_state(lhs, rhs) == lhs = rhs

\* SuperstateExt::depth
RECURSIVE depth(_, _)
depth(h, self) ==
    IF superstate(h, self) # None
    THEN depth(h, superstate(h, self)) + 1
    ELSE 1

\* common_ancestor_depth counting the implicit root as a level of its own.
RECURSIVE common_ancestor_depth_CountsRoot(_, _, _)
common_ancestor_depth_CountsRoot(h, source, tgt) ==
    CASE depth(h, source) = depth(h, tgt) ->
            IF same_state(source, tgt)
            THEN depth(h, source) + 1
            ELSE IF superstate(h, source) # None /\ superstate(h, tgt) # None
                 THEN common_ancestor_depth_CountsRoot(
                          h, superstate(h, source), superstate(h, tgt))
                 ELSE 1
      [] depth(h, source) > depth(h, tgt) ->
            IF superstate(h, source) # None
            THEN common_ancestor_depth_CountsRoot(h, superstate(h, source), tgt)
            ELSE 1
      [] depth(h, source) < depth(h, tgt) ->
            IF superstate(h, tgt) # None
            THEN common_ancestor_depth_CountsRoot(h, source, superstate(h, tgt))
            ELSE 1

\* common_ancestor_depth answering the depth above the matching level.
RECURSIVE common_ancestor_depth_ExcludesMatch(_, _, _)
common_ancestor_depth_ExcludesMatch(h, source, tgt) ==
    CASE depth(h, source) = depth(h, tgt) ->
            IF same_state(source, tgt)
            THEN depth(h, source) - 1
            ELSE IF superstate(h, source) # None /\ superstate(h, tgt) # None
                 THEN common_ancestor_depth_ExcludesMatch(
                          h, superstate(h, source), superstate(h, tgt))
                 ELSE 0
      [] depth(h, source) > depth(h, tgt) ->
            IF superstate(h, source) # None
            THEN common_ancestor_depth_ExcludesMatch(h, superstate(h, source), tgt)
            ELSE 0
      [] depth(h, source) < depth(h, tgt) ->
            IF superstate(h, tgt) # None
            THEN common_ancestor_depth_ExcludesMatch(h, source, superstate(h, tgt))
            ELSE 0

\* common_ancestor_depth that climbs both chains when the source is deeper,
\* instead of climbing the deeper chain alone.
RECURSIVE common_ancestor_depth_ClimbsBoth(_, _, _)
common_ancestor_depth_ClimbsBoth(h, source, tgt) ==
    CASE depth(h, source) = depth(h, tgt) ->
            IF same_state(source, tgt)
            THEN depth(h, source)
            ELSE IF superstate(h, source) # None /\ superstate(h, tgt) # None
                 THEN common_ancestor_depth_ClimbsBoth(
                          h, superstate(h, source), superstate(h, tgt))
                 ELSE 0
      [] depth(h, source) > depth(h, tgt) ->
            IF superstate(h, source) # None /\ superstate(h, tgt) # None
            THEN common_ancestor_depth_ClimbsBoth(
                     h, superstate(h, source), superstate(h, tgt))
            ELSE 0
      [] depth(h, source) < depth(h, tgt) ->
            IF superstate(h, tgt) # None
            THEN common_ancestor_depth_ClimbsBoth(h, source, superstate(h, tgt))
            ELSE 0

\* common_ancestor_depth whose Less arm climbs the source like the Greater arm.
RECURSIVE common_ancestor_depth_LessClimbsSource(_, _, _)
common_ancestor_depth_LessClimbsSource(h, source, tgt) ==
    CASE depth(h, source) = depth(h, tgt) ->
            IF same_state(source, tgt)
            THEN depth(h, source)
            ELSE IF superstate(h, source) # None /\ superstate(h, tgt) # None
                 THEN common_ancestor_depth_LessClimbsSource(
                          h, superstate(h, source), superstate(h, tgt))
                 ELSE 0
      [] depth(h, source) > depth(h, tgt) ->
            IF superstate(h, source) # None
            THEN common_ancestor_depth_LessClimbsSource(h, superstate(h, source), tgt)
            ELSE 0
      [] depth(h, source) < depth(h, tgt) ->
            IF superstate(h, source) # None
            THEN common_ancestor_depth_LessClimbsSource(h, superstate(h, source), tgt)
            ELSE 0

\* SuperstateExt::common_ancestor_depth
RECURSIVE common_ancestor_depth(_, _, _)
common_ancestor_depth(h, source, tgt) ==
    CASE depth(h, source) = depth(h, tgt) ->
            IF same_state(source, tgt)
            THEN depth(h, source)
            ELSE IF superstate(h, source) # None /\ superstate(h, tgt) # None
                 THEN common_ancestor_depth(h, superstate(h, source),
                                            superstate(h, tgt))
                 ELSE 0
      [] depth(h, source) > depth(h, tgt) ->
            IF superstate(h, source) # None
            THEN common_ancestor_depth(h, superstate(h, source), tgt)
            ELSE 0
      [] depth(h, source) < depth(h, tgt) ->
            IF superstate(h, tgt) # None
            THEN common_ancestor_depth(h, source, superstate(h, tgt))
            ELSE 0

\* enter whose own entry action sits inside the `if let Some(superstate)`:
\* a level without superstate asked for more than one level enters nothing.
RECURSIVE enter_SelfInsideIf(_, _, _)
enter_SelfInsideIf(h, self, levels) ==
    CASE levels = 0 -> <<>>
      [] levels = 1 -> <<self>>
      [] OTHER ->
            IF superstate(h, self) # None
            THEN enter_SelfInsideIf(h, superstate(h, self), levels - 1) \o <<self>>
            ELSE <<>>

\* enter with `levels -= 1` forgotten: it enters from the outermost level.
RECURSIVE enter_KeepsLevels(_, _, _)
enter_KeepsLevels(h, self, levels) ==
    CASE levels = 0 -> <<>>
      [] levels = 1 -> <<self>>
      [] OTHER ->
            (IF superstate(h, self) # None
             THEN enter_KeepsLevels(h, superstate(h, self), levels)
             ELSE <<>>) \o <<self>>

\* enter written like exit: the own entry action runs before the superstate's.
RECURSIVE enter_InnerFirst(_, _, _)
enter_InnerFirst(h, self, levels) ==
    CASE levels = 0 -> <<>>
      [] levels = 1 -> <<self>>
      [] OTHER ->
            <<self>> \o (IF superstate(h, self) # None
                         THEN enter_InnerFirst(h, superstate(h, self), levels - 1)
                         ELSE <<>>)

\* SuperstateExt::enter: the levels whose entry action is called, in order.
RECURSIVE enter(_, _, _)
enter(h, self, levels) ==
    CASE levels = 0 -> <<>>
      [] levels = 1 -> <<self>>
      [] OTHER ->
            (IF superstate(h, self) # None
             THEN enter(h, superstate(h, self), levels - 1)
             ELSE <<>>) \o <<self>>

\* exit that never climbs: only the own exit action runs.
exit_OnlySelf(h, self, levels) ==
    CASE levels = 0 -> <<>>
      [] OTHER -> <<self>>

\* exit with `levels -= 1` forgotten: it climbs to the outermost level.
RECURSIVE exit_KeepsLevels(_, _, _)
exit_KeepsLevels(h, self, levels) ==
    CASE levels = 0 -> <<>>
      [] levels = 1 -> <<self>>
      [] OTHER ->
            <<self>> \o (IF superstate(h, self) # None
                         THEN exit_KeepsLevels(h, superstate(h, self), levels)
                         ELSE <<>>)

\* exit written like enter: the superstate's exit action runs first.
RECURSIVE exit_OuterFirst(_, _, _)
exit_OuterFirst(h, self, levels) ==
    CASE levels = 0 -> <<>>
      [] levels = 1 -> <<self>>
      [] OTHER ->
            (IF superstate(h, self) # None
             THEN exit_OuterFirst(h, superstate(h, self), levels - 1)
             ELSE <<>>) \o <<self>>

\* SuperstateExt::exit: the levels whose exit action is called, in order.
RECURSIVE exit(_, _, _)
exit(h, self, levels) ==
    CASE levels = 0 -> <<>>
      [] levels = 1 -> <<self>>
      [] OTHER ->
            <<self>> \o (IF superstate(h, self) # None
                         THEN exit(h, superstate(h, self), levels - 1)
                         ELSE <<>>)

\* handle climbing to the superstate on Handled as it does on Super.
handle_HandledClimbs(h, self, response) ==
    CASE response.tag \in {"Handled", "Super"} ->
            IF superstate(h, self) # None
            THEN [on_dispatch |-> <<superstate(h, self)>>,
                  next |-> superstate(h, self), response |-> response]
            ELSE [on_dispatch |-> <<>>, next |-> None, response |-> response]
      [] response.tag = "Transition" ->
            [on_dispatch |-> <<>>, next |-> None, response |-> response]

\* handle asking the outermost level again instead of handing Super back.
handle_RetriesOutermost(h, self, response) ==
    CASE response.tag = "Handled" ->
            [on_dispatch |-> <<>>, next |-> None, response |-> Handled]
      [] response.tag = "Super" ->
            IF superstate(h, self) # None
            THEN [on_dispatch |-> <<superstate(h, self)>>,
                  next |-> superstate(h, self), response |-> Super]
            ELSE [on_dispatch |-> <<self>>, next |-> self, response |-> Super]
      [] response.tag = "Transition" ->
            [on_dispatch |-> <<>>, next |-> None, response |-> response]

\* handle reporting itself to the hook instead of the superstate it climbs to.
handle_HookOnSelf(h, self, response) ==
    CASE response.tag = "Handled" ->
            [on_dispatch |-> <<>>, next |-> None, response |-> Handled]
      [] response.tag = "Super" ->
            IF superstate(h, self) # None
            THEN [on_dispatch |-> <<self>>,
                  next |-> superstate(h, self), response |-> Super]
            ELSE [on_dispatch |-> <<>>, next |-> None, response |-> Super]
      [] response.tag = "Transition" ->
            [on_dispatch |-> <<>>, next |-> None, response |-> response]

\* SuperstateExt::handle, after call_handler answered `response` at `self`:
\* the hook calls made, the level whose handler is awaited next (None when
\* the traversal is over) and the response handed back in that case.
handle(h, self, response) ==
    CASE response.tag = "Handled" ->
            [on_dispatch |-> <<>>, next |-> None, response |-> Handled]
      [] response.tag = "Super" ->
            IF superstate(h, self) # None
            THEN [on_dispatch |-> <<superstate(h, self)>>,
                  next |-> superstate(h, self), response |-> Super]
            ELSE [on_dispatch |-> <<>>, next |-> None, response |-> Super]
      [] response.tag = "Transition" ->
            [on_dispatch |-> <<>>, next |-> None, response |-> response]

----------------------------------------------------------------------------
\* The state-level counterparts (State::depth, State::common_ancestor_depth,
\* State::enter, State::exit): a leaf is one more level of the chain.

State_depth(h, s) ==
    IF superstate(h, s) # None THEN depth(h, superstate(h, s)) + 1 ELSE 1

State_common_ancestor_depth(h, source, tgt) ==
    IF same_state(source, tgt)
    THEN State_depth(h, source)
    ELSE IF superstate(h, source) # None /\ superstate(h, tgt) # None
         THEN common_ancestor_depth(h, superstate(h, source), superstate(h, tgt))
         ELSE 0

State_enter(h, s, levels) ==
    CASE levels = 0 -> <<>>
      [] levels = 1 -> <<s>>
      [] OTHER ->
            (IF superstate(h, s) # None
             THEN enter(h, superstate(h, s), levels - 1)
             ELSE <<>>) \o <<s>>

State_exit(h, s, levels) ==
    CASE levels = 0 -> <<>>
      [] levels = 1 -> <<s>>
      [] OTHER ->
            <<s>> \o (IF superstate(h, s) # None
                      THEN exit(h, superstate(h, s), levels - 1)
                      ELSE <<>>)

----------------------------------------------------------------------------
\* One call recorded in the trace: k is the kind of call, l the level it is
\* made on (the target for "commit" and "on_transition"), x the source of an
\* "on_transition" or the target a handler answered, r the handler's answer.
Call(k, l, x, r) == [k |-> k, l |-> l, x |-> x, r |-> r]

OnDispatch(l) == Call("on_dispatch", l, None, "-")
HandlerCall(l, resp) == Call("handler", l, resp.state, resp.tag)
EntryAction(l) == Call("entry", l, None, "-")
Commit(t) == Call("commit", t, None, "-")
OnTransition(s, t) == Call("on_transition", t, s, "-")

RECURSIVE MapCalls(_, _)
MapCalls(k, seq) ==
    IF seq = <<>> THEN <<>>
    ELSE <<Call(k, Head(seq), None, "-")>> \o MapCalls(k, Tail(seq))

\* The transition taken from the level that answered instead of the leaf.
transition_source_IsAnswerer(leaf, answerer) == answerer

\* The source of the transition a dispatch ends with: the current leaf,
\* whichever level answered Transition.
transition_source(leaf, answerer) == leaf

\* The transition algorithm: the exit actions, then the entry actions.
transition(h, source, tgt) ==
    LET common == State_common_ancestor_depth(h, source, tgt)
    IN  MapCalls("exit", State_exit(h, source, State_depth(h, source) - common))
        \o MapCalls("entry", State_enter(h, tgt, State_depth(h, tgt) - common))

\* An event no level resolved raised as an error.
StateMachine_handle_UnhandledIsError(response) ==
    [transition |-> response.tag = "Transition", error |-> response.tag = "Super"]

\* StateMachine::handle, once the traversal handed back `response`: whether
\* a transition follows and whether an error is raised.
StateMachine_handle(response) ==
    [transition |-> response.tag = "Transition", error |-> FALSE]

\* The hook fired before the target is committed.
commit_HookFirst(source, tgt) == <<OnTransition(source, tgt), Commit(tgt)>>

\* Committing the target and firing on_transition.
commit(source, tgt) == <<Commit(tgt), OnTransition(source, tgt)>>

\* The target committed as soon as the exit phase is over, before the entry
\* actions are awaited; on_transition still fired after the last action.
after_action_CommitsBeforeEntries(prev, remaining, source, tgt) ==
    (IF prev.k # "entry" /\ (remaining = <<>> \/ Head(remaining).k = "entry")
     THEN <<Commit(tgt)>> ELSE <<>>)
    \o (IF remaining = <<>> THEN <<OnTransition(source, tgt)>> ELSE <<>>)

\* The calls made, without suspending, once an awaited call `prev` of a
\* transition has returned and the action calls `remaining` are left: the
\* target is committed and on_transition fired after the last action.
after_action(prev, remaining, source, tgt) ==
    IF remaining = <<>> THEN commit(source, tgt) ELSE <<>>

\* Whether the calls commit the target.
Commits(calls) == \E i \in DOMAIN calls : calls[i].k = "commit"

\* The effect of one entry or exit action on the active levels.
Apply(act, c) ==
    IF c.k = "entry" THEN [act EXCEPT ![c.l] = @ + 1]
    ELSE IF c.k = "exit" THEN [act EXCEPT ![c.l] = @ - 1]
    ELSE act

----------------------------------------------------------------------------
Init ==
    /\ hier \in Hierarchies
    /\ model \in (IF hier = BlinkyHier THEN {"Blinky", "Any"} ELSE {"Any"})
    /\ state \in (IF model = "Blinky" THEN {led_on} ELSE States(hier))
    /\ phase = "uninitialized"
    /\ pc = "idle"
    /\ event = "-"
    /\ cursor = None
    /\ target = None
    /\ todo = <<>>
    /\ trace = <<>>
    /\ active = [x \in Levels(hier) |-> 0]
    /\ fault = FALSE
    /\ blocking = [phase |-> "uninitialized", state |-> state, trace |-> <<>>,
                   done |-> TRUE]

\* init(): the entry actions of the whole initial chain are to run.
InitMachine ==
    /\ phase = "uninitialized"
    /\ pc = "idle"
    /\ pc' = "init"
    /\ todo' = MapCalls("entry", State_enter(hier, state, State_depth(hier, state)))
    /\ trace' = <<>>
    /\ blocking' = [blocking EXCEPT !.done = FALSE, !.trace = <<>>]
    /\ UNCHANGED <<hier, model, phase, state, event, cursor, target, active, fault>>

\* handle(event) dispatching on a machine on which init has not run.
HandleUninitialized_Dispatches ==
    /\ phase = "uninitialized"
    /\ pc = "idle"
    /\ \E e \in Events(model) : event' = e
    /\ trace' = <<OnDispatch(state)>>
    /\ cursor' = state
    /\ target' = None
    /\ pc' = "handler"
    /\ blocking' = [blocking EXCEPT !.done = FALSE, !.trace = <<>>]
    /\ UNCHANGED <<hier, model, phase, state, todo, active, fault>>

\* handle(event) on a machine on which init has not run.
HandleUninitialized ==
    /\ phase = "uninitialized"
    /\ pc = "idle"
    /\ fault' = TRUE
    /\ UNCHANGED <<hier, model, phase, state, pc, event, cursor, target, todo,
                   trace, active, blocking>>

\* handle(event): on_dispatch for the leaf, then its handler is awaited.
Handle ==
    /\ phase = "initialized"
    /\ pc = "idle"
    /\ blocking.done
    /\ \E e \in Events(model) : event' = e
    /\ trace' = <<OnDispatch(state)>>
    /\ cursor' = state
    /\ target' = None
    /\ pc' = "handler"
    /\ blocking' = [blocking EXCEPT !.done = FALSE, !.trace = <<>>]
    /\ UNCHANGED <<hier, model, phase, state, todo, active, fault>>

\* The awaited handler answers; the traversal goes on as `handle` says.
CallHandler ==
    /\ pc = "handler"
    /\ \E resp \in call_handler(model, hier, cursor, event) :
          LET res == handle(hier, cursor, resp)
              seen == Append(trace, HandlerCall(cursor, resp))
                        \o MapCalls("on_dispatch", res.on_dispatch)
          IN  IF res.next # None
              THEN /\ cursor' = res.next
                   /\ trace' = seen
                   /\ UNCHANGED <<pc, state, target, todo, fault>>
              ELSE IF StateMachine_handle(res.response).transition
              THEN LET source == transition_source(state, cursor)
                       steps == transition(hier, source, res.response.state)
                       tail == after_action(HandlerCall(cursor, resp), steps,
                                            source, res.response.state)
                   IN  /\ cursor' = None
                       /\ UNCHANGED fault
                       /\ target' = res.response.state
                       /\ todo' = steps
                       /\ trace' = seen \o tail
                       /\ state' = IF Commits(tail) THEN res.response.state ELSE state
                       /\ pc' = IF steps = <<>> THEN "idle" ELSE "transition"
              ELSE /\ cursor' = None
                   /\ trace' = seen
                   /\ pc' = "idle"
                   /\ fault' = (fault \/ StateMachine_handle(res.response).error)
                   /\ UNCHANGED <<state, target, todo>>
    /\ UNCHANGED <<hier, model, phase, event, active, blocking>>

\* The awaited entry or exit action runs; after the last one init() is over,
\* or the transition commits the target and fires on_transition.
RunAction ==
    /\ pc \in {"init", "transition"}
    /\ todo # <<>>
    /\ todo' = Tail(todo)
    /\ active' = Apply(active, Head(todo))
    /\ pc' = IF Tail(todo) = <<>> THEN "idle" ELSE pc
    /\ IF pc = "init"
       THEN /\ phase' = IF Tail(todo) = <<>> THEN "initialized" ELSE phase
            /\ trace' = Append(trace, Head(todo))
            /\ UNCHANGED state
       ELSE \* trace[1].l is the leaf the dispatch started at: the source
            LET tail == after_action(Head(todo), Tail(todo), trace[1].l, target)
            IN  /\ trace' = Append(trace, Head(todo)) \o tail
                /\ state' = IF Commits(tail) THEN target ELSE state
                /\ UNCHANGED phase
    /\ UNCHANGED <<hier, model, event, cursor, target, fault, blocking>>

----------------------------------------------------------------------------
\* The blocking (synchronous) mode: the same algorithms, each operation run
\* to completion in one step.

RECURSIVE Blocking_depth(_, _)
Blocking_depth(h, x) ==
    IF h[x] = None THEN 1 ELSE Blocking_depth(h, h[x]) + 1

\* Climb the deeper chain until the depths match, then climb both until the
\* kinds match.
RECURSIVE Blocking_common_ancestor_depth(_, _, _)
Blocking_common_ancestor_depth(h, a, b) ==
    IF Blocking_depth(h, a) > Blocking_depth(h, b)
    THEN Blocking_common_ancestor_depth(h, h[a], b)
    ELSE IF Blocking_depth(h, a) < Blocking_depth(h, b)
    THEN Blocking_common_ancestor_depth(h, a, h[b])
    ELSE IF a = b THEN Blocking_depth(h, a)
    ELSE IF h[a] = None THEN 0
    ELSE Blocking_common_ancestor_depth(h, h[a], h[b])

\* The n innermost levels of the chain of x, innermost first.
RECURSIVE Blocking_exit(_, _, _)
Blocking_exit(h, x, n) ==
    IF n = 0 THEN <<>>
    ELSE <<x>> \o (IF h[x] = None THEN <<>> ELSE Blocking_exit(h, h[x], n - 1))

\* The n innermost levels of the chain of x, outermost first.
RECURSIVE Blocking_enter(_, _, _)
Blocking_enter(h, x, n) ==
    IF n = 0 THEN <<>>
    ELSE (IF h[x] = None THEN <<>> ELSE Blocking_enter(h, h[x], n - 1)) \o <<x>>

\* What the handler of level x answers to the event of the operation in the
\* trace: the handlers are the same in both modes.
BlockingAnswer(x) ==
    IF model = "Blinky" THEN BlinkyHandler(x, event)
    ELSE IF \E i \in DOMAIN trace : trace[i].k = "handler" /\ trace[i].l = x
    THEN LET i == CHOOSE i \in DOMAIN trace :
                     trace[i].k = "handler" /\ trace[i].l = x
         IN  [tag |-> trace[i].r, state |-> trace[i].x]
    ELSE Handled

\* The handler of `self`, and while the answer is Super the hook and the
\* handler of each superstate in turn.
RECURSIVE Blocking_handle(_, _)
Blocking_handle(h, self) ==
    LET response == BlockingAnswer(self)
    IN  <<HandlerCall(self, response)>>
        \o (IF response.tag = "Super" /\ h[self] # None
            THEN <<OnDispatch(h[self])>> \o Blocking_handle(h, h[self])
            ELSE <<>>)

Blocking_transition(h, source, tgt) ==
    LET common == Blocking_common_ancestor_depth(h, source, tgt)
    IN  MapCalls("exit", Blocking_exit(h, source, Blocking_depth(h, source) - common))
        \o MapCalls("entry", Blocking_enter(h, tgt, Blocking_depth(h, tgt) - common))
        \o <<Commit(tgt), OnTransition(source, tgt)>>

\* init() in the blocking mode.
BlockingInit ==
    /\ pc = "idle"
    /\ phase = "initialized"
    /\ ~blocking.done
    /\ blocking.phase = "uninitialized"
    /\ blocking' =
          [phase |-> "initialized",
           state |-> blocking.state,
           trace |-> MapCalls("entry",
                        Blocking_enter(hier, blocking.state,
                                       Blocking_depth(hier, blocking.state))),
           done |-> TRUE]
    /\ UNCHANGED <<hier, model, phase, state, pc, event, cursor, target, todo,
                   trace, active, fault>>

\* handle(event) in the blocking mode, for the event of the trace.
BlockingHandle ==
    /\ pc = "idle"
    /\ phase = "initialized"
    /\ ~blocking.done
    /\ blocking.phase = "initialized"
    /\ LET s == blocking.state
           d == <<OnDispatch(s)>> \o Blocking_handle(hier, s)
           last == d[Len(d)]
       IN  blocking' =
              IF last.r = "Transition"
              THEN [phase |-> "initialized",
                    state |-> last.x,
                    trace |-> d \o Blocking_transition(hier, s, last.x),
                    done |-> TRUE]
              ELSE [blocking EXCEPT !.trace = d, !.done = TRUE]
    /\ UNCHANGED <<hier, model, phase, state, pc, event, cursor, target, todo,
                   trace, active, fault>>

Next ==
    \/ InitMachine
    \/ HandleUninitialized
    \/ Handle
    \/ CallHandler
    \/ RunAction
    \/ BlockingInit
    \/ BlockingHandle

Spec == Init /\ [][Next]_vars

\* Cooperative scheduling: a future suspended at an await point (a handler,
\* an entry or exit action) is eventually polled again.
SpecFair == Spec /\ WF_vars(CallHandler) /\ WF_vars(RunAction)

----------------------------------------------------------------------------
\* Helpers of the properties.

\* The calls of kind k in the trace, in order.
Kind(k) == SelectSeq(trace, LAMBDA c : c.k = k)

Last(seq) == seq[Len(seq)]

\* The operation in the trace ended with a committed transition.
Committed == trace # <<>> /\ Last(trace).k = "on_transition"

\* Source and target of that transition.
Source == Last(trace).x
Target == Last(trace).l

\* The chain of x as a set: x and every superstate above it.
RECURSIVE Chain(_, _)
Chain(h, x) == IF h[x] = None THEN {x} ELSE {x} \cup Chain(h, h[x])

\* Number of levels from x up to the outermost one, counted on the chain.
Height(h, x) == Cardinality(Chain(h, x))

\* The chain of x as a path, outermost level first.
RECURSIVE Path(_, _)
Path(h, x) == IF h[x] = None THEN <<x>> ELSE Append(Path(h, h[x]), x)

----------------------------------------------------------------------------
\* C1: after a committed transition from s to t the number of exit actions
\* run is depth(s) - common_ancestor_depth(s, t) and the number of entry
\* actions run is depth(t) - common_ancestor_depth(s, t).
C1_ExitEntryCounts ==
    Committed =>
        LET common == State_common_ancestor_depth(hier, Source, Target)
        IN  /\ Len(Kind("exit")) = State_depth(hier, Source) - common
            /\ Len(Kind("entry")) = State_depth(hier, Target) - common

\* A transition from a depth-4 leaf to a depth-2 leaf under the same
\* outermost superstate has committed.
C1_Witness ==
    /\ Committed
    /\ State_depth(hier, Source) = 4
    /\ State_depth(hier, Target) = 2
    /\ State_common_ancestor_depth(hier, Source, Target) = 1
    /\ Len(Kind("exit")) = 3
    /\ Len(Kind("entry")) = 1

----------------------------------------------------------------------------
\* The source of the transition in the trace, in progress or committed.
TransitionSource == IF Committed THEN Source ELSE state

\* Every call of the sequence is made on the superstate of the call before.
Upward(seq) ==
    \A i \in 1 .. Len(seq) - 1 : seq[i + 1].l = superstate(hier, seq[i].l)

\* Every call of the sequence is made on the superstate of the call after.
Downward(seq) ==
    \A i \in 1 .. Len(seq) - 1 : seq[i].l = superstate(hier, seq[i + 1].l)

\* C2: during one transition the exit actions run innermost-first from the
\* source leaf upward, the entry actions run outermost-first from just below
\* the common ancestor down to the target leaf, and every exit action runs
\* before any entry action.
C2_ActionOrder ==
    (pc = "transition" \/ Committed) =>
        LET exits == Kind("exit")
            entries == Kind("entry")
            common == State_common_ancestor_depth(hier, TransitionSource, target)
        IN  /\ exits # <<>> => exits[1].l = TransitionSource
            /\ Upward(exits)
            /\ entries # <<>> => Height(hier, entries[1].l) = common + 1
            /\ Downward(entries)
            /\ (Committed /\ entries # <<>>) => Last(entries).l = Target
            /\ \A i, j \in DOMAIN trace :
                  (trace[i].k = "exit" /\ trace[j].k = "entry") => i < j

\* A transition with three exit actions and two entry actions has committed.
C2_Witness ==
    /\ Committed
    /\ Len(Kind("exit")) = 3
    /\ Len(Kind("entry")) = 2
    /\ Source # Target

----------------------------------------------------------------------------
\* The on_dispatch and handler calls of the trace, in order.
DispatchCalls == SelectSeq(trace, LAMBDA c : c.k \in {"on_dispatch", "handler"})

\* C3: in every dispatch on_dispatch fires exactly once for each level
\* visited, leaf first and then each superstate in turn, and before that
\* level's handler runs; the traversal halts at the first level answering
\* Handled or Transition: no hook and no handler of a level above it runs.
C3_DispatchOrder ==
    LET d == DispatchCalls
    IN  /\ \A i \in 1 .. Len(d) : trace[i] = d[i]
        /\ \A i \in 1 .. Len(d) :
              IF i % 2 = 1
              THEN /\ d[i].k = "on_dispatch"
                   /\ i = 1 => d[i].l = TransitionSource
                   /\ i > 1 => /\ d[i - 1].r = "Super"
                               /\ d[i].l = superstate(hier, d[i - 2].l)
              ELSE /\ d[i].k = "handler"
                   /\ d[i].l = d[i - 1].l
        /\ \A i \in 1 .. Len(d) :
              (d[i].k = "handler" /\ d[i].r # "Super") => i = Len(d)
        /\ pc = "handler" => (Len(d) % 2 = 1 /\ Last(d).l = cursor)
        /\ pc # "handler" => Len(d) % 2 = 0

\* A dispatch visited three levels and halted at the third, which answered
\* Handled although it has a superstate of its own.
C3_Witness ==
    /\ pc = "idle"
    /\ Len(DispatchCalls) = 6
    /\ Last(DispatchCalls).r = "Handled"
    /\ superstate(hier, Last(DispatchCalls).l) # None

\* C4: on_transition fires exactly once per committed transition, right after
\* the current state has been set to the target, with the leaf at dispatch
\* start as source, and never in a dispatch that ended Handled; a dispatch
\* that ended Transition has fired it when it is over.
C4_OnTransitionOnce ==
    /\ Len(Kind("on_transition")) <= 1
    /\ \A i \in DOMAIN trace :
          trace[i].k = "on_transition" =>
              /\ i = Len(trace)
              /\ i > 1
              /\ trace[i - 1] = Commit(trace[i].l)
              /\ state = trace[i].l
              /\ pc = "idle"
              /\ trace[i].x = trace[1].l
    /\ \A i \in DOMAIN trace :
          trace[i].k = "commit" =>
              /\ i < Len(trace)
              /\ trace[i + 1].k = "on_transition"
    /\ \A i \in DOMAIN trace :
          (trace[i].k = "handler" /\ trace[i].r = "Handled") =>
              Kind("on_transition") = <<>>
    /\ \A i \in DOMAIN trace :
          (pc = "idle" /\ trace[i].k = "handler" /\ trace[i].r = "Transition") =>
              /\ Committed
              /\ Target = trace[i].x

\* A transition to another leaf has committed and on_transition has fired.
C4_Witness ==
    /\ Committed
    /\ Source # Target
    /\ state = Target
    /\ Len(Kind("exit")) = 1
    /\ Len(Kind("entry")) = 1

\* C5: common_ancestor_depth(a, b) = common_ancestor_depth(b, a) for all
\* pairs of superstates and for all pairs of states.
C5_Symmetry ==
    /\ \A a, b \in Superstates(hier) :
          common_ancestor_depth(hier, a, b) = common_ancestor_depth(hier, b, a)
    /\ \A a, b \in States(hier) :
          State_common_ancestor_depth(hier, a, b)
              = State_common_ancestor_depth(hier, b, a)

\* A transition has committed whose source chain is shorter than its target
\* chain and shares a superstate with it.
C5_Witness ==
    /\ Committed
    /\ State_depth(hier, Source) < State_depth(hier, Target)
    /\ State_common_ancestor_depth(hier, Source, Target) > 0
    /\ State_common_ancestor_depth(hier, Target, Source)
          = State_common_ancestor_depth(hier, Source, Target)

----------------------------------------------------------------------------
\* The depth of the deepest level that is on the chains of both a and b, and
\* 0 when the chains share no level.
DeepestShared(h, a, b) ==
    LET shared == Chain(h, a) \cap Chain(h, b)
    IN  IF shared = {} THEN 0
        ELSE CHOOSE n \in 1 .. Len(h) :
                /\ \E x \in shared : Height(h, x) = n
                /\ \A x \in shared : Height(h, x) <= n

\* C6: common_ancestor_depth(s, s) = depth(s) for every superstate and every
\* state, and a committed self-transition has run no exit action and no entry
\* action.
C6_SelfTransition ==
    /\ \A x \in Superstates(hier) :
          common_ancestor_depth(hier, x, x) = Height(hier, x)
    /\ \A s \in States(hier) :
          State_common_ancestor_depth(hier, s, s) = Height(hier, s)
    /\ (Committed /\ Source = Target) =>
          /\ Kind("exit") = <<>>
          /\ Kind("entry") = <<>>
          /\ \A x \in Levels(hier) : active[x] = (IF x \in Chain(hier, state) THEN 1 ELSE 0)

\* A self-transition of a leaf of depth 3 has committed.
C6_Witness ==
    /\ Committed
    /\ Source = Target
    /\ State_depth(hier, Source) = 3
    /\ Kind("exit") = <<>>
    /\ Kind("entry") = <<>>

\* C7: for every pair of chains, of equal or different depth,
\* common_ancestor_depth is the depth of the deepest level on both chains and
\* 0 when they share none.
C7_DeepestSharedLevel ==
    /\ \A a, b \in Superstates(hier) :
          common_ancestor_depth(hier, a, b) = DeepestShared(hier, a, b)
    /\ \A a, b \in States(hier) :
          State_common_ancestor_depth(hier, a, b) = DeepestShared(hier, a, b)

\* A transition from a depth-2 leaf to a depth-4 leaf has committed; their
\* superstates have depths 1 and 3 and share the outermost level.
C7_Witness ==
    /\ Committed
    /\ State_depth(hier, Source) = 2
    /\ State_depth(hier, Target) = 4
    /\ common_ancestor_depth(hier, superstate(hier, Source), superstate(hier, Target)) = 1
    /\ DeepestShared(hier, Source, Target) = 1

\* C8: when every level from the current leaf up to the outermost superstate
\* answers Super, the dispatch ends with the current state unchanged, no
\* entry or exit action run, no on_transition fired and no error raised.
C8_UnresolvedAbsorbed ==
    [][(/\ pc = "handler"
        /\ pc' = "idle"
        /\ Last(trace').k = "handler"
        /\ Last(trace').r = "Super")
       => /\ state' = state
          /\ active' = active
          /\ fault' = fault
          /\ todo' = <<>>
          /\ Len(trace') = 2 * Height(hier, state)
          /\ \A i \in DOMAIN trace' : trace'[i].k \in {"on_dispatch", "handler"}
          /\ \A i \in DOMAIN trace' : trace'[i].k = "handler" => trace'[i].r = "Super"]_vars

\* A dispatch on a leaf of depth 3 has ended with all three levels answering
\* Super.
C8_Witness ==
    /\ pc = "idle"
    /\ Len(trace) = 6
    /\ Last(trace).k = "handler"
    /\ Last(trace).r = "Super"
    /\ State_depth(hier, state) = 3
    /\ ~fault

\* C9: init() runs the entry action of every level of the initial state's
\* chain exactly once, outermost first and the initial leaf last (blinky:
\* blinking, then led_on), runs no exit action and fires no on_transition.
C9_InitEntersChain ==
    /\ (phase = "uninitialized" /\ pc = "idle") => trace = <<>>
    /\ pc = "init" => trace \o todo = MapCalls("entry", Path(hier, state))
    /\ (phase = "initialized" /\ trace # <<>> /\ trace[1].k = "entry") =>
          /\ trace = MapCalls("entry", Path(hier, state))
          /\ model = "Blinky" => trace = <<EntryAction(blinking), EntryAction(led_on)>>
          /\ \A x \in Levels(hier) :
                active[x] = (IF x \in Chain(hier, state) THEN 1 ELSE 0)

\* init() of blinky has completed with its two entry actions.
C9_Witness ==
    /\ model = "Blinky"
    /\ phase = "initialized"
    /\ pc = "idle"
    /\ trace = <<EntryAction(blinking), EntryAction(led_on)>>

\* C10: handle on a machine on which init has not run is rejected: no
\* handler, hook, entry or exit action runs and the current state is
\* unchanged; a handler is only ever awaited on an initialized machine, at a
\* level whose entry action has run.
C10_HandleBeforeInitRejected ==
    /\ [](pc = "handler" => (phase = "initialized" /\ active[cursor] = 1))
    /\ [][(phase = "uninitialized" /\ pc = "idle" /\ pc' # "init")
          => /\ fault'
             /\ UNCHANGED <<state, phase, pc, cursor, todo, trace, active>>]_vars

\* A handle call on an uninitialized machine has been rejected.
C10_Witness ==
    /\ fault
    /\ phase = "uninitialized"
    /\ pc = "idle"
    /\ trace = <<>>
    /\ \A x \in Levels(hier) : active[x] = 0

----------------------------------------------------------------------------
\* C11: for the same operations and the same handler answers the blocking
\* mode and the suspending mode make the identical sequence of on_dispatch,
\* handler, exit, entry and on_transition calls and end in the identical
\* current state, whatever steps the suspending mode took to get there.
C11_ModesAgree ==
    (pc = "idle" /\ blocking.done) =>
        /\ blocking.phase = phase
        /\ blocking.state = state
        /\ phase = "initialized" => blocking.trace = trace

\* Both modes have run a transition with two exit and two entry actions.
C11_Witness ==
    /\ pc = "idle"
    /\ blocking.done
    /\ Committed
    /\ blocking.trace = trace
    /\ Len(Kind("exit")) = 2
    /\ Len(Kind("entry")) = 2
    /\ model = "Any"

----------------------------------------------------------------------------
\* C12: no suspension point lies between committing the target and firing
\* on_transition: while an operation is suspended the current state is still
\* the one it started with and nothing is committed, and the step that
\* changes the current state is the step that fires on_transition for it.
C12_CommitAndHookAtomic ==
    /\ [](pc # "idle" =>
            /\ ~Commits(trace)
            /\ Kind("on_transition") = <<>>
            /\ pc \in {"handler", "transition"} => state = trace[1].l)
    /\ [][state' # state =>
            /\ pc' = "idle"
            /\ Last(trace').k = "on_transition"
            /\ Last(trace').l = state'
            /\ Last(trace').x = state
            /\ trace'[Len(trace') - 1] = Commit(state')]_vars

\* A transition that awaited two entry actions has committed its target and
\* fired on_transition right after the last of them.
C12_Witness ==
    /\ Committed
    /\ Len(trace) > 4
    /\ trace[Len(trace) - 1].k = "commit"
    /\ trace[Len(trace) - 2].k = "entry"
    /\ trace[Len(trace) - 3].k = "entry"
    /\ state = Target
    /\ state # Source

----------------------------------------------------------------------------
ExitAction(l) == Call("exit", l, None, "-")

\* A dispatch of event e that started in leaf s is over.
Dispatched(s, e) ==
    /\ phase = "initialized"
    /\ pc = "idle"
    /\ trace # <<>>
    /\ trace[1] = OnDispatch(s)
    /\ event = e

\* C13: in blinky, TimerElapsed in led_on transitions to led_off without
\* exiting or entering blinking; ButtonPressed in led_off is deferred by
\* led_off, answered by blinking and transitions to not_blinking, exiting
\* led_off then blinking and entering not_blinking; ButtonPressed in
\* not_blinking transitions to led_on, entering blinking then led_on.
C13_BlinkyScenario ==
    model = "Blinky" =>
        /\ Dispatched(led_on, "TimerElapsed") =>
              /\ trace = <<OnDispatch(led_on),
                           HandlerCall(led_on, Transition(led_off)),
                           ExitAction(led_on), EntryAction(led_off),
                           Commit(led_off), OnTransition(led_on, led_off)>>
              /\ state = led_off
        /\ Dispatched(led_off, "ButtonPressed") =>
              /\ trace = <<OnDispatch(led_off), HandlerCall(led_off, Super),
                           OnDispatch(blinking),
                           HandlerCall(blinking, Transition(not_blinking)),
                           ExitAction(led_off), ExitAction(blinking),
                           EntryAction(not_blinking),
                           Commit(not_blinking),
                           OnTransition(led_off, not_blinking)>>
              /\ state = not_blinking
        /\ Dispatched(not_blinking, "ButtonPressed") =>
              /\ trace = <<OnDispatch(not_blinking),
                           HandlerCall(not_blinking, Transition(led_on)),
                           ExitAction(not_blinking),
                           EntryAction(blinking), EntryAction(led_on),
                           Commit(led_on), OnTransition(not_blinking, led_on)>>
              /\ state = led_on

\* blinky has answered ButtonPressed in led_off and is in not_blinking.
C13_Witness ==
    /\ model = "Blinky"
    /\ Dispatched(led_off, "ButtonPressed")
    /\ state = not_blinking
    /\ active[blinking] = 0
    /\ active[not_blinking] = 1

----------------------------------------------------------------------------
\* The level whose handler answered last in the trace.
Answerer == Last(DispatchCalls).l

\* C14: when a superstate, not the leaf, answers Transition(target), the
\* transition is taken with the current leaf as source: the exit actions
\* start at the leaf, on_transition receives (leaf at dispatch start,
\* target) and the current state after the dispatch is the target.
C14_SuperstateTransition ==
    (/\ pc \in {"idle", "transition"}
     /\ DispatchCalls # <<>>
     /\ Last(DispatchCalls).r = "Transition"
     /\ Answerer # trace[1].l) =>
        LET leaf == trace[1].l
            tgt == Last(DispatchCalls).x
            exits == Kind("exit")
        IN  /\ Answerer \in Superstates(hier)
            /\ exits # <<>> => exits[1].l = leaf
            /\ pc = "transition" => (state = leaf /\ target = tgt)
            /\ pc = "idle" =>
                  /\ Committed
                  /\ Source = leaf
                  /\ Target = tgt
                  /\ state = tgt
                  /\ leaf # tgt => (exits # <<>> /\ exits[1].l = leaf)

\* The outermost of three levels answered Transition to a leaf elsewhere; the
\* exit actions ran from the leaf up and the target is committed.
C14_Witness ==
    /\ pc = "idle"
    /\ Committed
    /\ Len(DispatchCalls) = 6
    /\ Answerer \in Superstates(hier)
    /\ superstate(hier, Answerer) = None
    /\ Len(Kind("exit")) = 3
    /\ Kind("exit")[1].l = trace[1].l
    /\ state = Target

----------------------------------------------------------------------------
\* C15: a transition runs no exit action and no entry action for a level at
\* or above the common ancestor of source and target: every level on both
\* chains is left untouched, and stays active throughout.
C15_SharedLevelsUntouched ==
    (pc = "transition" \/ Committed) =>
        LET shared == Chain(hier, trace[1].l) \cap Chain(hier, target)
        IN  /\ \A i \in DOMAIN trace :
                  trace[i].k \in {"exit", "entry"} => trace[i].l \notin shared
            /\ \A i \in DOMAIN todo : todo[i].l \notin shared
            /\ \A x \in shared : active[x] = 1

\* A transition between two leaves of depth 3 that share their two outer
\* levels has committed with one exit and one entry action.
C15_Witness ==
    /\ Committed
    /\ Source # Target
    /\ Cardinality(Chain(hier, Source) \cap Chain(hier, Target)) = 2
    /\ Kind("exit") = <<ExitAction(Source)>>
    /\ Kind("entry") = <<EntryAction(Target)>>

\* C16: a dispatch in which a level's handler answers Handled ends there,
\* leaving the current state unchanged and running no entry action, no exit
\* action and no on_transition.
C16_HandledChangesNothing ==
    /\ []((\E i \in DOMAIN trace : trace[i].k = "handler" /\ trace[i].r = "Handled")
            => /\ pc = "idle"
               /\ trace = DispatchCalls
               /\ Last(trace).r = "Handled"
               /\ state = trace[1].l
               /\ todo = <<>>)
    /\ [][(pc = "handler" /\ Last(trace').k = "handler" /\ Last(trace').r = "Handled")
            => /\ pc' = "idle"
               /\ state' = state
               /\ active' = active
               /\ fault' = fault]_vars

\* A superstate answered Handled to an event its leaf deferred.
C16_Witness ==
    /\ pc = "idle"
    /\ Len(trace) = 4
    /\ trace[2].r = "Super"
    /\ trace[4].k = "handler"
    /\ trace[4].r = "Handled"
    /\ state = trace[1].l

----------------------------------------------------------------------------
Min(a, b) == IF a <= b THEN a ELSE b

Reverse(seq) == [i \in 1 .. Len(seq) |-> seq[Len(seq) + 1 - i]]

\* The m innermost levels of the chain of x, outermost of them first.
Innermost(h, x, m) ==
    SubSeq(Path(h, x), Len(Path(h, x)) - m + 1, Len(Path(h, x)))

\* C17: for a superstate X of depth d and any k >= 0, enter(k) calls the
\* entry actions of X and its nearest ancestors, min(k, d) of them, each
\* once, outermost first and X last; exit(k) calls the exit actions of the
\* same levels, X first and outermost last; enter(0) and exit(0) call none.
C17_EnterExitLevels ==
    \A x \in Superstates(hier) :
        \A k \in 0 .. Len(hier) + 1 :
            LET m == Min(k, Height(hier, x))
            IN  /\ enter(hier, x, k) = Innermost(hier, x, m)
                /\ exit(hier, x, k) = Reverse(Innermost(hier, x, m))
                /\ Len(enter(hier, x, k)) = m
                /\ k = 0 => (enter(hier, x, k) = <<>> /\ exit(hier, x, k) = <<>>)

\* init() of a leaf of depth 4 has completed: enter(3) on its superstate
\* called the three entry actions above the leaf, outermost first.
C17_Witness ==
    /\ pc = "idle"
    /\ phase = "initialized"
    /\ Len(trace) = 4
    /\ trace[1].k = "entry"
    /\ enter(hier, superstate(hier, state), 3) = <<trace[1].l, trace[2].l, trace[3].l>>
    /\ exit(hier, superstate(hier, state), 2) = <<trace[3].l, trace[2].l>>

----------------------------------------------------------------------------
\* C18: after init and after every completed handle call the active levels
\* are exactly the chain of the current state: each level on the chain has
\* been entered once more than exited, each level off it equally often.
C18_ActiveIsCurrentChain ==
    /\ (phase = "initialized" /\ pc = "idle") =>
          \A x \in Levels(hier) :
              active[x] = (IF x \in Chain(hier, state) THEN 1 ELSE 0)
    /\ \A x \in Levels(hier) : active[x] \in {0, 1}

\* After a transition between disjoint chains (two exit actions, three
\* entry actions) the source chain is inactive and the target chain active.
C18_Witness ==
    /\ Committed
    /\ Len(Kind("exit")) = 2
    /\ Len(Kind("entry")) = 3
    /\ \A x \in Chain(hier, Source) : active[x] = 0
    /\ \A x \in Chain(hier, Target) : active[x] = 1
    /\ state = Target

\* C19: 0 <= common_ancestor_depth(a, b) <= min(depth(a), depth(b)) for all
\* pairs and depth(x) >= 1 for every level, so the level counts
\* depth(source) - common and depth(target) - common handed to exit and
\* enter are never below zero.
C19_LevelsNeverUnderflow ==
    /\ \A x \in Superstates(hier) : depth(hier, x) >= 1
    /\ \A s \in States(hier) : State_depth(hier, s) >= 1
    /\ \A a, b \in Superstates(hier) :
          /\ common_ancestor_depth(hier, a, b) >= 0
          /\ common_ancestor_depth(hier, a, b) <= Min(depth(hier, a), depth(hier, b))
    /\ \A s, t \in States(hier) :
          /\ State_common_ancestor_depth(hier, s, t) >= 0
          /\ State_depth(hier, s) - State_common_ancestor_depth(hier, s, t) >= 0
          /\ State_depth(hier, t) - State_common_ancestor_depth(hier, s, t) >= 0

\* A transition has committed from a leaf whose superstate is the common
\* ancestor to a deeper leaf: one level exited, two entered.
C19_Witness ==
    /\ Committed
    /\ Source # Target
    /\ State_common_ancestor_depth(hier, Source, Target) = State_depth(hier, Source) - 1
    /\ State_depth(hier, Target) = State_depth(hier, Source) + 1
    /\ Len(Kind("exit")) = 1
    /\ Len(Kind("entry")) = 2

\* The handler calls of the dispatch in the trace.
HandlerCalls == Kind("handler")

\* Within the dispatch each level's handler has been called at most once,
\* and no more handlers than the leaf the dispatch started at has levels.
HandlersOncePerLevel ==
    /\ \A i, j \in 1 .. Len(HandlerCalls) :
          HandlerCalls[i].l = HandlerCalls[j].l => i = j
    /\ HandlerCalls # <<>> =>
          Len(HandlerCalls) <= State_depth(hier, trace[1].l)

\* C20: every handle call eventually completes when suspended futures are
\* polled again; within one dispatch each level's handler is called at most
\* once and at most depth(current leaf) handlers are called.
C20_HandleTerminates ==
    /\ []HandlersOncePerLevel
    /\ (pc \in {"handler", "transition"}) ~> (pc = "idle")

\* A dispatch from a leaf of depth 4 that every level passed up has
\* completed: four handler calls, the last one answering Super.
C20_Witness ==
    /\ pc = "idle"
    /\ phase = "initialized"
    /\ Len(HandlerCalls) = 4
    /\ State_depth(hier, trace[1].l) = 4
    /\ Last(trace).k = "handler"
    /\ Last(trace).r = "Super"

====
